---- MODULE Spec2Model ----
(***************************************************************************)
(* Model of web_app.py: the quiz session kept in the Flask session cookie, *)
(* the question_mastery and user_progress tables, and the request          *)
(* handlers that read and write them.  One action is one whole request.    *)
(***************************************************************************)
EXTENDS Integers, Sequences, FiniteSets, Bags, TLC

VARIABLES
    session,            \* the Flask session: a dict, keys absent until set
    question_mastery,   \* table question_mastery: question_id -> counters
    user_progress,      \* table user_progress: bag of (question_id, answered_correctly)
    response,           \* the response of the last request handled
    shuffle_arg,        \* the list passed to shuffle_options
    shuffle_result,     \* the tuple shuffle_options returned, <<>> before the call
    clients,            \* concurrent clients: cookie session and request in progress
    db_lock             \* the client whose transaction holds the write lock, or 0

vars == <<session, question_mastery, user_progress, response,
          shuffle_arg, shuffle_result, clients, db_lock>>

shuffleVars == <<shuffle_arg, shuffle_result>>

clientVars == <<clients, db_lock>>

requestVars == <<session, question_mastery, user_progress, response>>

(***************************************************************************)
(* Bounds of the model.                                                    *)
(***************************************************************************)
MaxHistory == 2         \* rows of user_progress under Spec
MaxMasteryHistory == 5  \* rows of user_progress under SpecMastery
MaxAnswers == 2         \* length of session['answers']
MaxIndex == 2           \* value of session['current_index']
MaxOptions == 3         \* length of the list passed to shuffle_options

(***************************************************************************)
(* Python dicts: session.get(key, default) and session[key] = value.       *)
(***************************************************************************)
EmptyDict == [k \in {} |-> 0]

Get(d, k, default) == IF k \in DOMAIN d THEN d[k] ELSE default

Put(d, k, v) == [x \in (DOMAIN d) \cup {k} |-> IF x = k THEN v ELSE d[x]]

(***************************************************************************)
(* The tables questions and options.  The web application never writes     *)
(* them.  An explanation may be NULL.                                      *)
(***************************************************************************)
NULL == "NULL"

QuestionRows ==
    { [id |-> 1, question_text |-> "q1", domain |-> "Security", explanation |-> "e1"],
      [id |-> 2, question_text |-> "q2", domain |-> "Cloud", explanation |-> NULL] }

OptionRows ==
    { [question_id |-> 1, option_letter |-> "A", option_text |-> "a1", is_correct |-> 1],
      [question_id |-> 1, option_letter |-> "B", option_text |-> "b1", is_correct |-> 0],
      [question_id |-> 2, option_letter |-> "B", option_text |-> "b2", is_correct |-> 1],
      [question_id |-> 2, option_letter |-> "A", option_text |-> "a2", is_correct |-> 1],
      [question_id |-> 2, option_letter |-> "C", option_text |-> "c2", is_correct |-> 0] }

QuestionIds == { r.id : r \in QuestionRows }

letters == <<"A", "B", "C", "D", "E", "F", "G", "H", "I", "J">>

LetterIndex(l) == CHOOSE i \in DOMAIN letters : letters[i] = l

(***************************************************************************)
(* Python truthiness of an integer column and of a string.                 *)
(***************************************************************************)
Truthy(n) == n # 0

TruthyStr(s) == s # NULL /\ s # ""

(***************************************************************************)
(* set(list): the set of the elements of a list.                           *)
(***************************************************************************)
SetOf(seq) == { seq[i] : i \in DOMAIN seq }

(***************************************************************************)
(* All orders of a finite set (ORDER BY RANDOM()).                         *)
(***************************************************************************)
Perms(S) ==
    { s \in [1..Cardinality(S) -> S] : \A i, j \in 1..Cardinality(S) : i # j => s[i] # s[j] }

(***************************************************************************)
(* SELECT ... FROM options WHERE question_id = ? ORDER BY option_letter,   *)
(* turned into the list of option dicts.                                   *)
(***************************************************************************)
OptionsTable ==
    [qid \in QuestionIds |->
        LET rows == { o \in OptionRows : o.question_id = qid }
            sorted == CHOOSE s \in Perms(rows) :
                        \A i, j \in DOMAIN s :
                            i < j => LetterIndex(s[i].option_letter)
                                        < LetterIndex(s[j].option_letter)
        IN  [i \in DOMAIN sorted |->
                [letter |-> sorted[i].option_letter,
                 text |-> sorted[i].option_text,
                 is_correct |-> sorted[i].is_correct]]]

FetchOptions(qid) == OptionsTable[qid]

(***************************************************************************)
(* [opt['letter'] for opt in options if opt['is_correct']]                 *)
(***************************************************************************)
CorrectLetters(options) ==
    LET Test(opt) == Truthy(opt.is_correct)
        picked == SelectSeq(options, Test)
    IN  [i \in DOMAIN picked |-> picked[i].letter]

(***************************************************************************)
(* The question dict get_questions builds from a row.                      *)
(***************************************************************************)
BuildQuestion(row) ==
    LET options == FetchOptions(row.id)
    IN  [id |-> row.id,
         question |-> row.question_text,
         domain |-> row.domain,
         explanation |-> IF TruthyStr(row.explanation) THEN row.explanation ELSE "",
         options |-> options,
         correct |-> CorrectLetters(options)]

(***************************************************************************)
(* rows[:limit] when limit is truthy.  limit is <<>> (absent) or <<n>>.    *)
(***************************************************************************)
Slice(rows, limit) ==
    IF limit = <<>> \/ limit[1] = 0 THEN rows
    ELSE IF limit[1] > 0
         THEN SubSeq(rows, 1, IF limit[1] < Len(rows) THEN limit[1] ELSE Len(rows))
         ELSE SubSeq(rows, 1, IF Len(rows) + limit[1] > 0 THEN Len(rows) + limit[1] ELSE 0)

(***************************************************************************)
(* get_questions(domain, limit): every list the random order can give.     *)
(***************************************************************************)
get_questions(domain, limit) ==
    LET matching == IF domain # "" /\ domain # "all"
                    THEN { r \in QuestionRows : r.domain = domain }
                    ELSE QuestionRows
    IN  { [i \in DOMAIN Slice(rows, limit) |-> BuildQuestion(Slice(rows, limit)[i])] :
            rows \in Perms(matching) }

(***************************************************************************)
(* The mastery store.  A question without a row is absent from DOMAIN.     *)
(***************************************************************************)
save_mastery_replace(mastery, question_id, is_correct) ==
    Put(mastery, question_id,
        [correct_count |-> IF is_correct THEN 1 ELSE 0,
         incorrect_count |-> IF is_correct THEN 0 ELSE 1])

save_mastery_decay(mastery, question_id, is_correct) ==
    IF question_id \in DOMAIN mastery
    THEN [mastery EXCEPT
            ![question_id].correct_count =
                IF is_correct THEN @ + 1 ELSE (IF @ > 0 THEN @ - 1 ELSE 0),
            ![question_id].incorrect_count = @ + (IF is_correct THEN 0 ELSE 1)]
    ELSE Put(mastery, question_id,
             [correct_count |-> IF is_correct THEN 1 ELSE 0,
              incorrect_count |-> IF is_correct THEN 0 ELSE 1])

save_mastery(mastery, question_id, is_correct) ==
    IF question_id \in DOMAIN mastery
    THEN [mastery EXCEPT
            ![question_id].correct_count = @ + (IF is_correct THEN 1 ELSE 0),
            ![question_id].incorrect_count = @ + (IF is_correct THEN 0 ELSE 1)]
    ELSE Put(mastery, question_id,
             [correct_count |-> IF is_correct THEN 1 ELSE 0,
              incorrect_count |-> IF is_correct THEN 0 ELSE 1])

save_history(history, question_id, is_correct) ==
    history (+) SetToBag({ <<question_id, is_correct>> })

get_mastery_info(mastery, question_id) ==
    IF question_id \in DOMAIN mastery
    THEN [correct |-> mastery[question_id].correct_count,
          incorrect |-> mastery[question_id].incorrect_count]
    ELSE [correct |-> 0, incorrect |-> 0]

(***************************************************************************)
(* get_missed_questions(): the questions that have a mastery row with      *)
(* correct_count < 4 (INNER JOIN), ORDER BY incorrect_count DESC,          *)
(* correct_count ASC, RANDOM(); every list that order can give.            *)
(***************************************************************************)
NotMasteredInclusive(m) == m.correct_count <= 4

NotMastered(m) == m.correct_count < 4

MissedBefore(m1, m2) ==
    \/ m1.incorrect_count > m2.incorrect_count
    \/ m1.incorrect_count = m2.incorrect_count /\ m1.correct_count <= m2.correct_count

get_missed_questions(mastery) ==
    LET joined == { r \in QuestionRows :
                      r.id \in DOMAIN mastery /\ NotMastered(mastery[r.id]) }
        orders == { rows \in Perms(joined) :
                      \A i, j \in DOMAIN rows :
                          i < j => MissedBefore(mastery[rows[i].id], mastery[rows[j].id]) }
    IN  { [i \in DOMAIN rows |->
              [id |-> rows[i].id,
               question |-> rows[i].question_text,
               domain |-> rows[i].domain,
               explanation |-> IF TruthyStr(rows[i].explanation)
                               THEN rows[i].explanation ELSE "",
               options |-> FetchOptions(rows[i].id),
               correct |-> CorrectLetters(FetchOptions(rows[i].id)),
               mastery |-> [correct |-> mastery[rows[i].id].correct_count,
                            incorrect |-> mastery[rows[i].id].incorrect_count]]] :
          rows \in orders }

(***************************************************************************)
(* get_stats(): every result the tie order of GROUP BY ... ORDER BY count  *)
(* DESC can give.                                                          *)
(***************************************************************************)
get_stats(mastery) ==
    LET names == { r.domain : r \in QuestionRows }
        Count(name) == Cardinality({ r \in QuestionRows : r.domain = name })
        orders == { s \in Perms(names) :
                      \A i, j \in DOMAIN s : i < j => Count(s[i]) >= Count(s[j]) }
    IN  { [total |-> Cardinality(QuestionRows),
           domains |-> [i \in DOMAIN s |-> [name |-> s[i], count |-> Count(s[i])]],
           needs_practice |-> Cardinality({ q \in DOMAIN mastery :
                                  /\ mastery[q].correct_count < 4
                                  /\ (mastery[q].correct_count > 0
                                      \/ mastery[q].incorrect_count > 0) }),
           mastered_count |-> Cardinality({ q \in DOMAIN mastery :
                                  mastery[q].correct_count >= 4 }),
           wrong_count |-> Cardinality({ q \in DOMAIN mastery :
                                  /\ mastery[q].incorrect_count > 0
                                  /\ mastery[q].correct_count < 4 })] :
          s \in orders }

(***************************************************************************)
(* The computation of results(): percentage is the exact quotient          *)
(* score * 100 / total, kept as numerator and denominator.                 *)
(***************************************************************************)
PercentageUnguarded(score, total) == [num |-> score * 100, den |-> total]

PercentageFraction(score, total) ==
    IF total > 0 THEN [num |-> score, den |-> total] ELSE [num |-> 0, den |-> 1]

Percentage(score, total) ==
    IF total > 0 THEN [num |-> score * 100, den |-> total] ELSE [num |-> 0, den |-> 1]

Passed(percentage) == percentage.num >= 70 * percentage.den

DomainScores(questions, answers) ==
    LET seen == { questions[i].domain : i \in DOMAIN answers }
    IN  [d \in seen |->
            [correct |-> Cardinality({ i \in DOMAIN answers :
                              questions[i].domain = d /\ answers[i].is_correct }),
             total |-> Cardinality({ i \in DOMAIN answers : questions[i].domain = d })]]

(***************************************************************************)
(* Inputs of the requests.                                                 *)
(***************************************************************************)
DomainArgs == { "all", "", "Security", "Billing" }

LimitArgs == { <<>>, <<1>>, <<-1>> }

Selections == { <<"A">>, <<"B", "A", "B">> }

(***************************************************************************)
(* The reads of the session every handler starts with.                     *)
(***************************************************************************)
SessionQuestions == Get(session, "questions", <<>>)

CurrentIndex == Get(session, "current_index", 0)

Score == Get(session, "score", 0)

Answers == Get(session, "answers", <<>>)

(***************************************************************************)
(* "Store questions in session": the five assignments of quiz() and of     *)
(* quiz_missed().                                                          *)
(***************************************************************************)
NewSessionKeepsScore(sess, questions, domain) ==
    Put(Put(Put(Put(sess,
        "questions", questions),
        "current_index", 0),
        "answers", <<>>),
        "domain", domain)

NewSession(sess, questions, domain) ==
    Put(Put(Put(Put(Put(sess,
        "questions", questions),
        "current_index", 0),
        "score", 0),
        "answers", <<>>),
        "domain", domain)

(***************************************************************************)
(* GET /quiz                                                               *)
(***************************************************************************)
quiz(domain, limit) ==
    \E questions \in get_questions(domain, limit) :
        IF questions = <<>>
        THEN /\ response' = [route |-> "quiz", template |-> "error.html",
                             message |-> "No questions available"]
             /\ UNCHANGED <<session, question_mastery, user_progress>>
        ELSE /\ session' = NewSession(session, questions, domain)
             /\ response' = [route |-> "quiz", template |-> "quiz.html",
                             question |-> questions[1], current |-> 1,
                             total |-> Len(questions), domain |-> domain]
             /\ UNCHANGED <<question_mastery, user_progress>>

(***************************************************************************)
(* POST /answer: the verdict, correct == selected_set.                     *)
(***************************************************************************)
IsCorrectSubset(correct, selected) == SetOf(selected) \subseteq SetOf(correct)

IsCorrect(correct, selected) == SetOf(correct) = SetOf(selected)

(***************************************************************************)
(* POST /answer: if is_correct: session['score'] = score + 1.              *)
(***************************************************************************)
ScoreAfterAlways(sess, is_correct) ==
    Put(sess, "score", Get(sess, "score", 0) + 1)

ScoreAfter(sess, is_correct) ==
    IF is_correct THEN Put(sess, "score", Get(sess, "score", 0) + 1) ELSE sess

(***************************************************************************)
(* POST /answer past the end of the question list.                         *)
(***************************************************************************)
answer_completed_clears ==
    /\ response' = [route |-> "answer", error |-> "Quiz completed"]
    /\ session' = Put(session, "answers", <<>>)
    /\ UNCHANGED <<question_mastery, user_progress>>

answer_completed ==
    /\ response' = [route |-> "answer", error |-> "Quiz completed"]
    /\ UNCHANGED <<session, question_mastery, user_progress>>

(***************************************************************************)
(* POST /answer on the current question: score, answer log, save_progress  *)
(* and the response with the mastery counters read back.                   *)
(***************************************************************************)
answer_record(selected) ==
    LET question == SessionQuestions[CurrentIndex + 1]
        correct == SetOf(question.correct)
        is_correct == IsCorrect(question.correct, selected)
        scored == ScoreAfter(session, is_correct)
        answers == Append(Get(scored, "answers", <<>>),
                          [question_id |-> question.id,
                           selected |-> selected,
                           correct |-> correct,
                           is_correct |-> is_correct])
    IN  /\ session' = Put(scored, "answers", answers)
        /\ user_progress' = save_history(user_progress, question.id, is_correct)
        /\ question_mastery' = save_mastery(question_mastery, question.id, is_correct)
        /\ response' = [route |-> "answer",
                        is_correct |-> is_correct,
                        correct_answers |-> correct,
                        explanation |-> question.explanation,
                        mastery |-> get_mastery_info(question_mastery', question.id)]

answer(selected) ==
    IF CurrentIndex >= Len(SessionQuestions)
    THEN answer_completed
    ELSE answer_record(selected)

(***************************************************************************)
(* GET /next                                                               *)
(***************************************************************************)
next_question ==
    LET questions == Get(session, "questions", <<>>)
        current_index == Get(session, "current_index", 0) + 1
    IN  /\ session' = Put(session, "current_index", current_index)
        /\ response' = IF current_index >= Len(questions)
                       THEN [route |-> "next", completed |-> TRUE]
                       ELSE [route |-> "next", completed |-> FALSE,
                             question |-> questions[current_index + 1],
                             current |-> current_index + 1,
                             total |-> Len(questions)]
        /\ UNCHANGED <<question_mastery, user_progress>>

(***************************************************************************)
(* GET /results.  The loop over the answers indexes questions by the       *)
(* answer's position and raises IndexError past the end of the list.       *)
(***************************************************************************)
results ==
    LET questions == Get(session, "questions", <<>>)
        answers == Get(session, "answers", <<>>)
        score == Get(session, "score", 0)
        total == Len(questions)
        percentage == Percentage(score, total)
    IN  /\ response' = IF \E i \in DOMAIN answers : i > Len(questions)
                       THEN [route |-> "results", exception |-> "IndexError"]
                       ELSE [route |-> "results", template |-> "results.html",
                             score |-> score,
                             total |-> total,
                             percentage |-> percentage,
                             passed |-> Passed(percentage),
                             domain_scores |-> DomainScores(questions, answers),
                             answers |-> answers,
                             questions |-> questions]
        /\ UNCHANGED <<session, question_mastery, user_progress>>

(***************************************************************************)
(* GET /review                                                             *)
(***************************************************************************)
review ==
    LET questions == Get(session, "questions", <<>>)
        answers == Get(session, "answers", <<>>)
        n == IF Len(questions) < Len(answers) THEN Len(questions) ELSE Len(answers)
    IN  /\ response' = [route |-> "review", template |-> "review.html",
                        review_data |-> [i \in 1..n |->
                                            [number |-> i,
                                             question |-> questions[i],
                                             answer |-> answers[i]]]]
        /\ UNCHANGED <<session, question_mastery, user_progress>>

(***************************************************************************)
(* GET /quiz/missed                                                        *)
(***************************************************************************)
quiz_missed ==
    \E questions \in get_missed_questions(question_mastery) :
        IF questions = <<>>
        THEN /\ response' = [route |-> "quiz_missed", template |-> "error.html",
                             message |-> "No missed questions to practice! Great job!"]
             /\ UNCHANGED <<session, question_mastery, user_progress>>
        ELSE /\ session' = NewSession(session, questions, "Missed Questions")
             /\ response' = [route |-> "quiz_missed", template |-> "quiz.html",
                             question |-> questions[1], current |-> 1,
                             total |-> Len(questions), domain |-> "Missed Questions"]
             /\ UNCHANGED <<question_mastery, user_progress>>

(***************************************************************************)
(* GET /clear-progress                                                     *)
(***************************************************************************)
clear_progress_history_only ==
    /\ user_progress' = EmptyBag
    /\ response' = [route |-> "clear_progress", template |-> "error.html",
                    message |-> "Progress cleared! All missed questions have been reset."]
    /\ UNCHANGED <<session, question_mastery>>

clear_progress_route ==
    /\ user_progress' = EmptyBag
    /\ question_mastery' = EmptyDict
    /\ response' = [route |-> "clear_progress", template |-> "error.html",
                    message |-> "Progress cleared! All missed questions have been reset."]
    /\ UNCHANGED session

(***************************************************************************)
(* GET /api/stats                                                         *)
(***************************************************************************)
api_stats ==
    /\ \E stats \in get_stats(question_mastery) :
          response' = [route |-> "api_stats", stats |-> stats]
    /\ UNCHANGED <<session, question_mastery, user_progress>>

(***************************************************************************)
(* Clients that send requests at the same time: each has its own cookie    *)
(* session; a request in progress keeps its local values in work.          *)
(***************************************************************************)
Clients == { 1, 2 }

NoWork == [session |-> EmptyDict, question_id |-> 0, is_correct |-> FALSE,
           row |-> [correct_count |-> 0, incorrect_count |-> 0]]

InitRequests ==
    /\ session = EmptyDict
    /\ question_mastery = EmptyDict
    /\ user_progress = EmptyBag
    /\ response = [route |-> "none"]

InitClients ==
    /\ clients = [c \in Clients |->
                    [session |-> EmptyDict, pc |-> "idle", work |-> NoWork,
                     overlapped |-> FALSE]]
    /\ db_lock = 0

Init ==
    /\ InitRequests
    /\ InitClients
    /\ shuffle_arg = <<>>
    /\ shuffle_result = <<>>

(***************************************************************************)
(* The requests of one client, one at a time.  The answer log, the index   *)
(* and the history table grow without limit in the program; the model      *)
(* stops them at its bounds.                                               *)
(***************************************************************************)
Next ==
    \/ \E domain \in DomainArgs, limit \in LimitArgs :
          quiz(domain, limit) /\ UNCHANGED <<shuffleVars, clientVars>>
    \/ \E selected \in Selections :
          /\ answer(selected)
          /\ Len(Answers') <= MaxAnswers
          /\ BagCardinality(user_progress') <= MaxHistory
          /\ UNCHANGED <<shuffleVars, clientVars>>
    \/ next_question /\ CurrentIndex' <= MaxIndex /\ UNCHANGED <<shuffleVars, clientVars>>
    \/ results /\ UNCHANGED <<shuffleVars, clientVars>>
    \/ review /\ UNCHANGED <<shuffleVars, clientVars>>
    \/ quiz_missed /\ UNCHANGED <<shuffleVars, clientVars>>
    \/ clear_progress_route /\ UNCHANGED <<shuffleVars, clientVars>>
    \/ api_stats /\ UNCHANGED <<shuffleVars, clientVars>>

Spec == Init /\ [][Next]_vars

(***************************************************************************)
(* The same requests with quizzes on the one question of a single domain,  *)
(* and a history long enough for that question to be mastered and then     *)
(* answered again.                                                         *)
(***************************************************************************)
MasteryDomainArgs == { "Security" }

NextMastery ==
    \/ \E domain \in MasteryDomainArgs, limit \in LimitArgs :
          quiz(domain, limit) /\ UNCHANGED <<shuffleVars, clientVars>>
    \/ \E selected \in Selections :
          /\ answer(selected)
          /\ Len(Answers') <= MaxAnswers
          /\ BagCardinality(user_progress') <= MaxMasteryHistory
          /\ UNCHANGED <<shuffleVars, clientVars>>
    \/ next_question /\ CurrentIndex' <= MaxIndex /\ UNCHANGED <<shuffleVars, clientVars>>
    \/ results /\ UNCHANGED <<shuffleVars, clientVars>>
    \/ review /\ UNCHANGED <<shuffleVars, clientVars>>
    \/ quiz_missed /\ UNCHANGED <<shuffleVars, clientVars>>
    \/ clear_progress_route /\ UNCHANGED <<shuffleVars, clientVars>>
    \/ api_stats /\ UNCHANGED <<shuffleVars, clientVars>>

SpecMastery == Init /\ [][NextMastery]_vars

(***************************************************************************)
(* The requests that start, answer and advance quizzes on either question, *)
(* with the same long history: one question can be mastered while the      *)
(* other still has a row with correct_count < 4.                           *)
(***************************************************************************)
MissedDomainArgs == { "Security", "Cloud" }

NextMissed ==
    \/ \E domain \in MissedDomainArgs, limit \in LimitArgs :
          quiz(domain, limit) /\ UNCHANGED <<shuffleVars, clientVars>>
    \/ \E selected \in Selections :
          /\ answer(selected)
          /\ Len(Answers') <= MaxAnswers
          /\ BagCardinality(user_progress') <= MaxMasteryHistory
          /\ UNCHANGED <<shuffleVars, clientVars>>
    \/ next_question /\ CurrentIndex' <= MaxIndex /\ UNCHANGED <<shuffleVars, clientVars>>
    \/ quiz_missed /\ UNCHANGED <<shuffleVars, clientVars>>
    \/ clear_progress_route /\ UNCHANGED <<shuffleVars, clientVars>>

SpecMissed == Init /\ [][NextMissed]_vars

(***************************************************************************)
(* shuffle_options(options).  The option dicts it can be given: letter,    *)
(* text and the is_correct flag (an integer column).                       *)
(***************************************************************************)
OptionTexts == { "x", "y" }

OptionDicts ==
    [letter : SetOf(letters), text : OptionTexts, is_correct : { 0, 1 }]

OptionLists ==
    UNION { { options \in [1..n -> OptionDicts] :
                \A i \in 1..n : options[i].letter = letters[i] } : n \in 0..MaxOptions }

(***************************************************************************)
(* shuffled = options.copy(); random.shuffle(shuffled): every order of the *)
(* copy is a possible outcome.                                             *)
(***************************************************************************)
Shuffles(options) ==
    { [i \in DOMAIN options |-> options[p[i]]] : p \in Perms(DOMAIN options) }

RECURSIVE CorrectOf(_)
CorrectOf(new_options) ==
    IF new_options = <<>> THEN <<>>
    ELSE LET n == Len(new_options)
             front == CorrectOf(SubSeq(new_options, 1, n - 1))
         IN  IF Truthy(new_options[n].is_correct)
                 THEN Append(front, new_options[n].letter)
                 ELSE front

RelabelKeepsLetter(shuffled) ==
    LET new_options == [i \in DOMAIN shuffled |->
                           [letter |-> shuffled[i].letter,
                            text |-> shuffled[i].text,
                            is_correct |-> shuffled[i].is_correct]]
    IN  <<new_options, CorrectOf(new_options)>>

(***************************************************************************)
(* The loop of shuffle_options: the i-th shuffled option gets letters[i],  *)
(* and its letter is appended to correct when it is flagged.               *)
(***************************************************************************)
Relabel(shuffled) ==
    LET new_options == [i \in DOMAIN shuffled |->
                           [letter |-> letters[i],
                            text |-> shuffled[i].text,
                            is_correct |-> shuffled[i].is_correct]]
    IN  <<new_options, CorrectOf(new_options)>>

shuffle_options ==
    /\ \E shuffled \in Shuffles(shuffle_arg) : shuffle_result' = Relabel(shuffled)
    /\ UNCHANGED shuffle_arg

InitShuffle ==
    /\ InitRequests
    /\ InitClients
    /\ shuffle_arg \in OptionLists
    /\ shuffle_result = <<>>

NextShuffle == shuffle_options /\ UNCHANGED <<requestVars, clientVars>>

SpecShuffle == InitShuffle /\ [][NextShuffle]_vars

(***************************************************************************)
(* Requests of several clients served at the same time (the development    *)
(* server handles each request in its own thread).  Every client has its   *)
(* own cookie session; question_mastery and user_progress are the one      *)
(* database file.  POST /answer is split where another request can run in  *)
(* between: before save_progress, inside its transaction, after its        *)
(* commit.                                                                 *)
(***************************************************************************)
ConcurrentDomainArgs == { "Security" }

QuestionsOf(sess) == Get(sess, "questions", <<>>)

IndexOf(sess) == Get(sess, "current_index", 0)

AnswersOf(sess) == Get(sess, "answers", <<>>)

(***************************************************************************)
(* GET /quiz of client c.                                                  *)
(***************************************************************************)
client_quiz(c, domain) ==
    /\ clients[c].pc = "idle"
    /\ \E questions \in get_questions(domain, <<>>) :
          /\ questions # <<>>
          /\ clients' = [clients EXCEPT
                           ![c].session = NewSession(@, questions, domain)]
    /\ UNCHANGED <<question_mastery, user_progress, db_lock>>

(***************************************************************************)
(* POST /answer of client c up to the call of save_progress: the verdict,  *)
(* the score and the answer log, all in the request's copy of the session. *)
(***************************************************************************)
client_answer_begin(c, selected) ==
    LET sess == clients[c].session
    IN  /\ clients[c].pc = "idle"
        /\ IndexOf(sess) < Len(QuestionsOf(sess))
        /\ LET question == QuestionsOf(sess)[IndexOf(sess) + 1]
               is_correct == IsCorrect(question.correct, selected)
               scored == ScoreAfter(sess, is_correct)
               answers == Append(AnswersOf(scored),
                                 [question_id |-> question.id,
                                  selected |-> selected,
                                  correct |-> SetOf(question.correct),
                                  is_correct |-> is_correct])
           IN  clients' = [clients EXCEPT
                             ![c].pc = "save",
                             ![c].work = [session |-> Put(scored, "answers", answers),
                                          question_id |-> question.id,
                                          is_correct |-> is_correct,
                                          row |-> NoWork.row]]
        /\ UNCHANGED <<question_mastery, user_progress, db_lock>>

CanWriteUnlocked(c) == TRUE

(***************************************************************************)
(* The first INSERT of save_progress opens the connection's transaction    *)
(* and needs the write lock of the database file: one transaction at a     *)
(* time holds it.                                                          *)
(***************************************************************************)
CanWrite(c) == db_lock = 0

(***************************************************************************)
(* save_progress up to its commit: the history INSERT and the upsert run   *)
(* inside the transaction; the upsert computes correct_count + ? from the  *)
(* row it finds.                                                           *)
(***************************************************************************)
client_save_execute(c) ==
    LET work == clients[c].work
    IN  /\ clients[c].pc = "save"
        /\ CanWrite(c)
        /\ db_lock' = c
        /\ clients' = [clients EXCEPT
                         ![c].pc = "commit",
                         ![c].work.row =
                             save_mastery(question_mastery, work.question_id,
                                          work.is_correct)[work.question_id]]
        /\ UNCHANGED <<question_mastery, user_progress>>

(***************************************************************************)
(* The lock is held by another transaction until the connection's timeout: *)
(* execute raises, the request fails and its session is not saved.         *)
(***************************************************************************)
client_save_locked(c) ==
    /\ clients[c].pc = "save"
    /\ db_lock \notin { 0, c }
    /\ clients' = [clients EXCEPT ![c].pc = "idle", ![c].work = NoWork]
    /\ UNCHANGED <<question_mastery, user_progress, db_lock>>

(***************************************************************************)
(* conn.commit(): the two rows become visible and the lock is released.    *)
(* A request of another client that is waiting to save the same question   *)
(* has overlapped with this one.                                           *)
(***************************************************************************)
client_save_commit(c) ==
    LET work == clients[c].work
        waiting == { d \in Clients \ { c } :
                        /\ clients[d].pc = "save"
                        /\ clients[d].work.question_id = work.question_id }
    IN  /\ clients[c].pc = "commit"
        /\ question_mastery' = Put(question_mastery, work.question_id, work.row)
        /\ user_progress' = save_history(user_progress, work.question_id, work.is_correct)
        /\ db_lock' = 0
        /\ clients' = [d \in Clients |->
                         IF d = c
                         THEN [clients[d] EXCEPT !.pc = "read",
                                                 !.overlapped = @ \/ waiting # {}]
                         ELSE [clients[d] EXCEPT !.overlapped = @ \/ d \in waiting]]

(***************************************************************************)
(* The rest of POST /answer: get_mastery_info and the JSON response, with  *)
(* which the session cookie is saved.                                      *)
(***************************************************************************)
client_answer_respond(c) ==
    /\ clients[c].pc = "read"
    /\ clients' = [clients EXCEPT
                     ![c].pc = "idle",
                     ![c].session = clients[c].work.session,
                     ![c].work = NoWork]
    /\ UNCHANGED <<question_mastery, user_progress, db_lock>>

NextConcurrent ==
    \/ \E c \in Clients, domain \in ConcurrentDomainArgs :
          /\ client_quiz(c, domain)
          /\ "questions" \notin DOMAIN clients[c].session
          /\ UNCHANGED <<session, response, shuffleVars>>
    \/ \E c \in Clients, selected \in Selections :
          /\ client_answer_begin(c, selected)
          /\ Len(AnswersOf(clients'[c].work.session)) <= MaxAnswers
          /\ UNCHANGED <<session, response, shuffleVars>>
    \/ \E c \in Clients : client_save_execute(c) /\ UNCHANGED <<session, response, shuffleVars>>
    \/ \E c \in Clients : client_save_locked(c) /\ UNCHANGED <<session, response, shuffleVars>>
    \/ \E c \in Clients : client_save_commit(c) /\ UNCHANGED <<session, response, shuffleVars>>
    \/ \E c \in Clients : client_answer_respond(c) /\ UNCHANGED <<session, response, shuffleVars>>

SpecConcurrent == Init /\ [][NextConcurrent]_vars

(***************************************************************************)
(* The submissions for question q that were answered with a verdict, as    *)
(* the clients' answer logs record them.                                   *)
(***************************************************************************)
AcceptedBy(c, q) ==
    Cardinality({ i \in DOMAIN AnswersOf(clients[c].session) :
                    AnswersOf(clients[c].session)[i].question_id = q })

RECURSIVE AcceptedOf(_, _)
AcceptedOf(S, q) ==
    IF S = {} THEN 0
    ELSE LET c == CHOOSE x \in S : TRUE
         IN  AcceptedBy(c, q) + AcceptedOf(S \ { c }, q)

Accepted(q) == AcceptedOf(Clients, q)

AllIdle == \A c \in Clients : clients[c].pc = "idle"

(***************************************************************************)
(* What the properties below speak about.                                  *)
(***************************************************************************)
AcceptedAnswer == response.route = "answer" /\ "is_correct" \in DOMAIN response

StartedQuiz == response.route \in {"quiz", "quiz_missed"} /\ response.template = "quiz.html"

CorrectOptionLetters(qid) ==
    { o.option_letter : o \in { r \in OptionRows : r.question_id = qid /\ r.is_correct = 1 } }

CountOf(mastery, q) ==
    IF q \in DOMAIN mastery
    THEN mastery[q]
    ELSE [correct_count |-> 0, incorrect_count |-> 0]

Mastered(mastery, q) == CountOf(mastery, q).correct_count >= 4

AnsweredEachOnce ==
    /\ Len(SessionQuestions) >= 1
    /\ Len(Answers) = Len(SessionQuestions)
    /\ CurrentIndex = Len(SessionQuestions)
    /\ \A i \in DOMAIN Answers : Answers[i].question_id = SessionQuestions[i].id

(***************************************************************************)
(* C1: after any sequence of requests, current_index is in                 *)
(* [0, len(questions)].                                                    *)
(***************************************************************************)
C1_IndexWithinQuestions ==
    CurrentIndex >= 0 /\ CurrentIndex <= Len(SessionQuestions)

(***************************************************************************)
(* C2: in every reachable state, score is the number of records of the     *)
(* answer log whose is_correct flag is true.                               *)
(***************************************************************************)
C2_ScoreCountsCorrectAnswers ==
    Score = Cardinality({ i \in DOMAIN Answers : Answers[i].is_correct })

C2_Witness ==
    /\ Len(Answers) = 2
    /\ Answers[1].is_correct
    /\ ~Answers[2].is_correct
    /\ Score = 1

(***************************************************************************)
(* C3: in every state reached immediately after an Advance,                *)
(* len(answers) = current_index.                                           *)
(***************************************************************************)
C3_AnswersMatchIndexAfterAdvance ==
    response.route = "next" => Len(Answers) = CurrentIndex

(***************************************************************************)
(* C4: an answer request is accepted only while current_index <            *)
(* len(questions); otherwise it returns the quiz-completed error and       *)
(* leaves the session, the mastery store and the answer history unchanged. *)
(***************************************************************************)
C4_CompletedAnswerChangesNothing ==
    [][response'.route = "answer" =>
          IF CurrentIndex >= Len(SessionQuestions)
          THEN /\ response' = [route |-> "answer", error |-> "Quiz completed"]
               /\ UNCHANGED <<session, question_mastery, user_progress>>
          ELSE /\ AcceptedAnswer'
               /\ Len(Answers') = Len(Answers) + 1]_vars

C4_Witness ==
    /\ response = [route |-> "answer", error |-> "Quiz completed"]
    /\ Len(SessionQuestions) >= 1
    /\ CurrentIndex >= Len(SessionQuestions)
    /\ Len(Answers) >= 1
    /\ BagCardinality(user_progress) >= 1

(***************************************************************************)
(* C5: the verdict of an accepted answer is true exactly when the set of   *)
(* the selected letters is the set of the letters of the question's        *)
(* options flagged correct, and score grows by one exactly when the        *)
(* verdict is true.                                                        *)
(***************************************************************************)
C5_VerdictIsExactSetMatch ==
    [][AcceptedAnswer' =>
          LET question == SessionQuestions[CurrentIndex + 1]
              rec == Answers'[Len(Answers')]
              verdict == response'.is_correct
          IN  /\ rec.question_id = question.id
              /\ verdict = (SetOf(rec.selected) = CorrectOptionLetters(question.id))
              /\ rec.is_correct = verdict
              /\ Score' = Score + (IF verdict THEN 1 ELSE 0)]_vars

C5_Witness ==
    /\ AcceptedAnswer
    /\ response.is_correct
    /\ Answers[Len(Answers)].selected = <<"B", "A", "B">>
    /\ Answers[Len(Answers)].question_id = 2

(***************************************************************************)
(* C6: when every question of a session of n >= 1 questions was answered   *)
(* once and advanced past, results() gives total = n, score = the number   *)
(* of correctly answered questions, percentage = score / total * 100 and   *)
(* passed exactly when score * 100 >= 70 * total; with no questions it     *)
(* gives percentage 0 and passed false.                                    *)
(***************************************************************************)
C6_ResultsOfCompletedQuiz ==
    response.route = "results" =>
        /\ AnsweredEachOnce =>
              LET n == Len(SessionQuestions)
                  correctly == Cardinality({ i \in 1..n :
                                  SetOf(Answers[i].selected)
                                      = CorrectOptionLetters(SessionQuestions[i].id) })
              IN  /\ "total" \in DOMAIN response
                  /\ response.total = n
                  /\ response.score = correctly
                  /\ response.percentage.den > 0
                  /\ response.percentage.num * n = correctly * 100 * response.percentage.den
                  /\ response.passed = (correctly * 100 >= 70 * n)
                  /\ correctly = n =>
                        /\ response.percentage.num = 100 * response.percentage.den
                        /\ response.passed
        /\ Len(SessionQuestions) = 0 =>
              /\ "total" \in DOMAIN response
              /\ response.total = 0
              /\ response.percentage.num = 0
              /\ ~response.passed

C6_Witness ==
    /\ response.route = "results"
    /\ AnsweredEachOnce
    /\ Len(SessionQuestions) = 2
    /\ response.score = 2
    /\ response.passed

(***************************************************************************)
(* C7: results() returns a result in every reachable session state; it     *)
(* never fails.                                                            *)
(***************************************************************************)
C7_ResultsNeverFails ==
    response.route = "results" => "exception" \notin DOMAIN response

(***************************************************************************)
(* C8: after a successful quiz() or quiz_missed() the session holds        *)
(* current_index 0, score 0, an empty answer log and the newly fetched     *)
(* non-empty question list, whatever the session held before.              *)
(***************************************************************************)
C8_StartResetsSession ==
    StartedQuiz =>
        /\ DOMAIN session = {"questions", "current_index", "score", "answers", "domain"}
        /\ session.current_index = 0
        /\ session.score = 0
        /\ session.answers = <<>>
        /\ session.questions # <<>>
        /\ Len(session.questions) = response.total
        /\ session.questions[1] = response.question
        /\ session.domain = response.domain
        /\ \A i, j \in DOMAIN session.questions :
              i # j => session.questions[i].id # session.questions[j].id
        /\ \A i \in DOMAIN session.questions :
              LET q == session.questions[i]
              IN  /\ \E r \in QuestionRows : r.id = q.id /\ r.domain = q.domain
                  /\ response.route = "quiz" =>
                        response.domain \in {"all", ""} \/ q.domain = response.domain
                  /\ response.route = "quiz_missed" =>
                        /\ q.id \in DOMAIN question_mastery
                        /\ question_mastery[q.id].correct_count < 4

C8_Witness ==
    /\ StartedQuiz
    /\ BagCardinality(user_progress) >= 2
    /\ Len(SessionQuestions) = 2

(***************************************************************************)
(* C9: an accepted answer on question q creates q's mastery row with       *)
(* counters (1,0) or (0,1) when it has none, adds exactly 1 to the         *)
(* matching counter when it has one, leaves the rows of the other          *)
(* questions unchanged, and returns q's counters after the update.         *)
(***************************************************************************)
C9_UpsertOfMasteryRow ==
    [][AcceptedAnswer' =>
          LET q == SessionQuestions[CurrentIndex + 1].id
              ok == response'.is_correct
              before == CountOf(question_mastery, q)
          IN  /\ DOMAIN question_mastery' = DOMAIN question_mastery \cup {q}
              /\ question_mastery'[q].correct_count
                    = before.correct_count + (IF ok THEN 1 ELSE 0)
              /\ question_mastery'[q].incorrect_count
                    = before.incorrect_count + (IF ok THEN 0 ELSE 1)
              /\ \A p \in DOMAIN question_mastery \ {q} :
                    question_mastery'[p] = question_mastery[p]
              /\ response'.mastery = [correct |-> question_mastery'[q].correct_count,
                                      incorrect |-> question_mastery'[q].incorrect_count]]_vars

C9_Witness ==
    /\ AcceptedAnswer
    /\ DOMAIN question_mastery = {1, 2}
    /\ response.mastery.correct >= 1
    /\ response.mastery.incorrect >= 1

(***************************************************************************)
(* C10: except in a clear-progress request, no mastery counter decreases   *)
(* and no row disappears, only an accepted answer changes the mastery      *)
(* store, and a question with correct_count >= 4 stays mastered.           *)
(***************************************************************************)
C10_CountersGrowUntilReset ==
    [][response'.route # "clear_progress" =>
          /\ \A q \in DOMAIN question_mastery :
                /\ q \in DOMAIN question_mastery'
                /\ question_mastery'[q].correct_count >= question_mastery[q].correct_count
                /\ question_mastery'[q].incorrect_count >= question_mastery[q].incorrect_count
          /\ question_mastery' # question_mastery => AcceptedAnswer'
          /\ \A q \in QuestionIds :
                Mastered(question_mastery, q) => Mastered(question_mastery', q)]_vars

C10_Witness ==
    /\ AcceptedAnswer
    /\ ~response.is_correct
    /\ response.mastery.correct >= 4

(***************************************************************************)
(* C11: after a clear-progress request no mastery row and no history row   *)
(* exists, every question reads as (0, 0), and the statistics requested    *)
(* next report mastered_count, needs_practice and wrong_count 0 with the   *)
(* total and the per-domain question counts of the store.                  *)
(***************************************************************************)
C11_ResetClearsEverything ==
    [][/\ response'.route = "clear_progress" =>
            /\ DOMAIN question_mastery' = {}
            /\ user_progress' = EmptyBag
            /\ \A q \in QuestionIds :
                  get_mastery_info(question_mastery', q) = [correct |-> 0, incorrect |-> 0]
       /\ (response.route = "clear_progress" /\ response'.route = "api_stats") =>
            /\ response'.stats.mastered_count = 0
            /\ response'.stats.needs_practice = 0
            /\ response'.stats.wrong_count = 0
            /\ response'.stats.total = Cardinality(QuestionRows)
            /\ { response'.stats.domains[i] : i \in DOMAIN response'.stats.domains }
                  = { [name |-> r.domain,
                       count |-> Cardinality({ x \in QuestionRows : x.domain = r.domain })] :
                      r \in QuestionRows }]_vars

C11_Witness ==
    /\ response.route = "clear_progress"
    /\ Len(Answers) = 2
    /\ Score = 1

(***************************************************************************)
(* C12: the list a quiz_missed request starts never holds a question whose *)
(* correct_count is 4 or more, and a correct answer to a question with     *)
(* correct_count 3 makes it mastered.                                      *)
(***************************************************************************)
C12_MasteredLeavesMissedPool ==
    [][/\ (response'.route = "quiz_missed" /\ response'.template = "quiz.html") =>
            \A i \in DOMAIN SessionQuestions' :
                CountOf(question_mastery, SessionQuestions'[i].id).correct_count < 4
       /\ (/\ AcceptedAnswer'
           /\ response'.is_correct
           /\ CountOf(question_mastery, SessionQuestions[CurrentIndex + 1].id).correct_count = 3) =>
            /\ question_mastery'[SessionQuestions[CurrentIndex + 1].id].correct_count = 4
            /\ Mastered(question_mastery', SessionQuestions[CurrentIndex + 1].id)
            /\ \A questions \in get_missed_questions(question_mastery') :
                  \A i \in DOMAIN questions :
                      questions[i].id # SessionQuestions[CurrentIndex + 1].id]_vars

C12_Witness ==
    /\ response.route = "quiz_missed"
    /\ response.template = "quiz.html"
    /\ \E q \in QuestionIds : Mastered(question_mastery, q)

(***************************************************************************)
(* C13: a quiz_missed request fails only when every question of the store  *)
(* has correct_count >= 4.                                                 *)
(***************************************************************************)
C13_MissedFailsOnlyWhenAllMastered ==
    (response.route = "quiz_missed" /\ response.template = "error.html") =>
        \A q \in QuestionIds : CountOf(question_mastery, q).correct_count >= 4

(***************************************************************************)
(* C15: the question a next request returns carries no correctness         *)
(* information: neither the list of correct letters nor the is_correct     *)
(* flag of an option.                                                      *)
(***************************************************************************)
C15_NextHidesCorrectness ==
    (response.route = "next" /\ ~response.completed) =>
        /\ "correct" \notin DOMAIN response.question
        /\ \A i \in DOMAIN response.question.options :
              "is_correct" \notin DOMAIN response.question.options[i]

(***************************************************************************)
(* C16: while no quiz was ever started, an answer request returns the      *)
(* quiz-completed error and changes nothing, a next request returns        *)
(* completed, results gives score 0, total 0, percentage 0, not passed and *)
(* an empty breakdown, and review gives an empty list.                     *)
(***************************************************************************)
C16_MissingSessionIsEmpty ==
    [][("questions" \notin DOMAIN session) =>
          /\ response'.route = "answer" =>
                /\ response' = [route |-> "answer", error |-> "Quiz completed"]
                /\ UNCHANGED <<session, question_mastery, user_progress>>
          /\ response'.route = "next" =>
                response' = [route |-> "next", completed |-> TRUE]
          /\ response'.route = "results" =>
                /\ "exception" \notin DOMAIN response'
                /\ response'.score = 0
                /\ response'.total = 0
                /\ response'.percentage.num = 0
                /\ response'.percentage.den > 0
                /\ ~response'.passed
                /\ DOMAIN response'.domain_scores = {}
          /\ response'.route = "review" =>
                response'.review_data = <<>>]_vars

C16_Witness ==
    /\ "questions" \notin DOMAIN session
    /\ CurrentIndex = 2
    /\ response.route = "results"

(***************************************************************************)
(* C18: the record at position i of the answer log answers the question at *)
(* position i of the question list.                                        *)
(***************************************************************************)
C18_AnswersAlignWithQuestions ==
    \A i \in DOMAIN Answers :
        /\ i \in DOMAIN SessionQuestions
        /\ Answers[i].question_id = SessionQuestions[i].id

(***************************************************************************)
(* C19: in every reachable state score <= len(questions).                  *)
(***************************************************************************)
C19_ScoreWithinQuestions ==
    Score <= Len(SessionQuestions)

(***************************************************************************)
(* C20: a quiz request fails exactly when no question of the store matches *)
(* the domain filter, and a quiz or quiz_missed request that fails leaves  *)
(* the session and the mastery store unchanged.                            *)
(***************************************************************************)
C20_StartFailsOnlyWithoutMatch ==
    [][/\ \A domain \in DomainArgs, limit \in LimitArgs :
            quiz(domain, limit) =>
                /\ (response'.template = "error.html") <=>
                      ({ r \in QuestionRows :
                           domain \in {"all", ""} \/ r.domain = domain } = {})
                /\ (response'.template = "error.html") =>
                      UNCHANGED <<session, question_mastery, user_progress>>
       /\ (response'.route = "quiz_missed" /\ response'.template = "error.html") =>
            UNCHANGED <<session, question_mastery, user_progress>>]_vars

(***************************************************************************)
(* C17: for every option list of at most 10 options (here at most          *)
(* MaxOptions), shuffle_options returns a list of the same length whose    *)
(* (text, is_correct) entries are a permutation of the input's, lettered   *)
(* A, B, C, ... in output order, with a correct list that holds exactly    *)
(* the letters of the output options flagged correct, once each, so as     *)
(* many as the input has correct options; the input list is not modified.  *)
(***************************************************************************)
C17_ShufflePermutesAndRelabels ==
    [][shuffle_result' # <<>> =>
          LET new_options == shuffle_result'[1]
              correct == shuffle_result'[2]
          IN  /\ Len(new_options) = Len(shuffle_arg)
              /\ \E p \in Perms(DOMAIN shuffle_arg) :
                    \A i \in DOMAIN shuffle_arg :
                        /\ new_options[i].text = shuffle_arg[p[i]].text
                        /\ new_options[i].is_correct = shuffle_arg[p[i]].is_correct
              /\ \A i \in DOMAIN new_options : new_options[i].letter = letters[i]
              /\ SetOf(correct) =
                    { new_options[i].letter :
                        i \in { j \in DOMAIN new_options : new_options[j].is_correct # 0 } }
              /\ Len(correct) = Cardinality(SetOf(correct))
              /\ Len(correct) =
                    Cardinality({ i \in DOMAIN shuffle_arg : shuffle_arg[i].is_correct # 0 })
              /\ shuffle_arg' = shuffle_arg]_vars

C17_Witness ==
    /\ shuffle_result # <<>>
    /\ Len(shuffle_arg) = 3
    /\ shuffle_arg[1].is_correct = 0
    /\ shuffle_arg[3].is_correct = 1
    /\ shuffle_result[1][1].text # shuffle_arg[1].text
    /\ shuffle_result[2] = <<"A">>

====
